---- MODULE Spec2Model ----
(***************************************************************************)
(* A model of the farm-api backend: the expense handlers of                *)
(* routes/expenses.ts (addExpense, importExpenses, updateExpense and the   *)
(* insertExpense helper they share) over the categories and expenses       *)
(* tables, and the getAnimalSummary handler of routes/animals.ts over the  *)
(* animals and weight_records tables.                                      *)
(*                                                                         *)
(* Every `await supabase...` of a handler is one atomic step at the store; *)
(* the local code that follows it, up to the next store call, belongs to   *)
(* the same step.  A store call either completes or returns an error, so   *)
(* every step draws its error outcome from BOOLEAN.  A logger call         *)
(* (`await logger.info/error`) is an insert into error_logs, a table no    *)
(* handler modelled here reads; it is folded into the step it follows and  *)
(* recorded only as store access of the request (the ghost `touched`).     *)
(***************************************************************************)
EXTENDS Integers, Sequences, FiniteSets, TLC

(***************************************************************************)
(* Bounds of the model.                                                    *)
(***************************************************************************)
\* Expense records the server receives in one behaviour: an addExpense or an
\* updateExpense request brings one, an importExpenses request its batch
\* (counted as one when the batch is empty or no array).
MaxRecords == 2
\* Rows of the animals table.
MaxAnimals == 2
\* Rows of the weight_records table.
MaxWeightRecords == 2
\* Calls of ErrorLogger.log in one behaviour of the logger specification.
MaxLogCalls == 3

\* The request handlers that run concurrently (one in-flight request each).
Procs == {"r1", "r2"}

(***************************************************************************)
(* Values.  A JSON field that is absent (undefined) or null is NULL; an    *)
(* optional number is <<>> when absent and <<n>> when present.             *)
(***************************************************************************)
NULL == "NULL"
None == << >>
Some(n) == << n >>

\* JavaScript truthiness of an optional string / an optional number.
FalsyStr(s) == s = NULL \/ s = ""
FalsyNum(a) == a = None \/ a = Some(0)

\* `x || 0` on an optional number.
OrZero(a) == IF FalsyNum(a) THEN 0 ELSE a[1]

\* A string whose characters matter (a date) is the sequence of its
\* characters.
IsoDate == << "2", "0", "2", "4", "-", "0", "1", "-", "0", "5" >>   \* "2024-01-05"
MdyDate == << "1", "/", "5", "/", "2", "0", "2", "4" >>             \* "1/5/2024"
OtherDate == << "n", "o", "t", "-", "a", "-", "d", "a", "t", "e" >> \* "not-a-date"
\* A date that is absent (undefined).
NoDate == << >>
\* new Date().toISOString().split("T")[0] at the time of the call.
Today == << "2", "0", "2", "6", "-", "1", "1", "-", "0", "2" >>      \* "2026-11-02"

\* A complete expense, and the request bodies (ExpenseRecord-shaped JSON) a
\* client sends: the complete expense, and every body that differs from it
\* in one field (the field absent, a zero amount, another category).
FullExpense == [description |-> "d", amount |-> Some(5), category |-> "Feed",
                subCategory |-> "Hay", date |-> IsoDate]

Bodies ==
    {FullExpense}
    \cup {[FullExpense EXCEPT !.description = NULL]}
    \cup {[FullExpense EXCEPT !.amount = a] : a \in {None, Some(0)}}
    \cup {[FullExpense EXCEPT !.category = c] : c \in {NULL, "Vet"}}
    \cup {[FullExpense EXCEPT !.subCategory = NULL]}

\* The bodies of updateExpense requests: updateExpense reads description and
\* amount only to pass them on.
UpdateBodies == {b \in Bodies : b.description # NULL /\ ~FalsyNum(b.amount)}

\* The date normalisation of readExpenses.
IsDigit(c) == c \in {"0", "1", "2", "3", "4", "5", "6", "7", "8", "9"}

\* /^\d{4}-\d{2}-\d{2}$/.test(dateStr)
MatchesIso(d) ==
    /\ Len(d) = 10
    /\ \A i \in {1, 2, 3, 4, 6, 7, 9, 10} : IsDigit(d[i])
    /\ d[5] = "-" /\ d[8] = "-"

RECURSIVE Split(_, _)
\* dateStr.split(sep)
Split(d, sep) ==
    IF \A i \in 1..Len(d) : d[i] # sep THEN << d >>
    ELSE LET k == CHOOSE i \in 1..Len(d) :
                     d[i] = sep /\ \A j \in 1..(i - 1) : d[j] # sep
         IN  << SubSeq(d, 1, k - 1) >> \o Split(SubSeq(d, k + 1, Len(d)), sep)

\* part.padStart(2, "0")
PadStart2(part) ==
    IF Len(part) >= 2 THEN part
    ELSE IF Len(part) = 1 THEN << "0" >> \o part
    ELSE << "0", "0" >>

\* formattedDate of readExpenses for the source date dateStr, today being
\* the current date.
FormattedDate(dateStr, today) ==
    IF dateStr = NoDate THEN today
    ELSE IF MatchesIso(dateStr) THEN dateStr
    ELSE LET dateParts == Split(dateStr, "/") IN
         IF Len(dateParts) = 3
         THEN dateParts[3] \o << "-" >> \o PadStart2(dateParts[1])
                           \o << "-" >> \o PadStart2(dateParts[2])
         ELSE today

VARIABLES
    categories,   \* the categories table: rows [id, name, subCategories]
    expenses,     \* the expenses table: rows [id, categoryId, description, amount, subCategory, date]
    nextCatId,    \* the serial of categories.id
    nextExpId,    \* the serial of expenses.id
    h,            \* per handler: the position and locals of its in-flight request
    res,          \* the last response sent, with the locals of its request
    started,      \* expense records received so far
    animals,      \* the animals table
    weight_records, \* the weight_records table
    summary,      \* the last response of getAnimalSummary
    logs,         \* the log entries the last step emitted, each with its sinks
    error_logs,   \* the error_logs table, as ErrorLogger.log fills it
    console,      \* the console sink of ErrorLogger.consoleLog
    logCalls,     \* calls of ErrorLogger.log so far
    tasks,        \* the tasks table
    breeding_records, \* the breeding_records table
    vaccination_records, \* the vaccination_records table: rows [id, animalId]
    health_records, \* the health_records table: rows [id, animalId]
    allexpenses,  \* the rows of the allexpenses view
    listing       \* the last response of getExpenses

vars == << categories, expenses, nextCatId, nextExpId, h, res, started,
           animals, weight_records, summary, logs, error_logs, console,
           logCalls, tasks, breeding_records, vaccination_records,
           health_records, allexpenses, listing >>

expenseVars == << categories, expenses, nextCatId, nextExpId, h, res, started,
                  logs >>
animalVars == << animals, weight_records, summary >>
loggerVars == << error_logs, console, logCalls >>
childVars == << vaccination_records, health_records >>
crudVars == << tasks, breeding_records, childVars >>
readerVars == << allexpenses, listing >>

(***************************************************************************)
(* The store (supabase / PostgREST), as the handlers use it.               *)
(***************************************************************************)

\* .from('categories').select('id').eq('name', name): the rows the filter
\* matches.  An undefined name is sent as the text "undefined", which is the
\* name of no row.
MatchingCategories(name) ==
    IF name = NULL THEN {} ELSE {c \in categories : c.name = name}

\* .single(): an error unless the call succeeded and matched exactly one row.
SingleError(rows, storeError) == storeError \/ Cardinality(rows) # 1

\* The id of the single matching row (categoryData.id).
SingleId(rows) == (CHOOSE c \in rows : TRUE).id

(***************************************************************************)
(* ErrorLogger.log, as its callers see it.                                 *)
(***************************************************************************)
LogLevels == {"info", "warn", "error", "debug"}

\* What the insert into error_logs does: it succeeds, returns an error, or
\* throws.
LogOutcomes == {"ok", "error", "throws"}

\* The details argument: absent, serialisable, or one JSON.stringify throws
\* on (a circular object), in which case the insert is never reached.
LogDetails == {"none", "plain", "circular"}

\* (mutant) an insert that throws is not caught.
LogThrowsUncaught(details, outcome) ==
    details # "circular" /\ outcome = "throws"

\* Whether log() throws to its caller: the whole body is inside try, and the
\* catch only calls console.
LogThrows(details, outcome) == FALSE

\* (mutant) no console fallback when the insert returns an error.
LogSinksNoFallback(details, outcome) ==
    IF details = "circular" THEN {"console"}
    ELSE IF outcome = "ok" THEN {"error_logs"}
    ELSE IF outcome = "error" THEN {}
    ELSE {"console"}

\* The sinks one call of log() writes its entry to.
LogSinks(details, outcome) ==
    IF details = "circular" THEN {"console"}
    ELSE IF outcome = "ok" THEN {"error_logs"}
    ELSE {"console"}

\* A logger call a handler makes: logger.<level>(...) about `what`.
Call(level, what, details) ==
    [level |-> level, what |-> what, details |-> details]

\* Of the logger calls a step makes in this order, with o[i] the outcome of
\* the i-th: the calls that throw, and the calls that are made (up to the
\* first that throws).
ThrowingCalls(calls, o) ==
    {i \in 1..Len(calls) : LogThrows(calls[i].details, o[i])}

MadeCalls(calls, o) ==
    IF ThrowingCalls(calls, o) = {} THEN calls
    ELSE SubSeq(calls, 1,
                CHOOSE i \in ThrowingCalls(calls, o) :
                    \A j \in ThrowingCalls(calls, o) : i <= j)

\* The entries the calls emit.
Emitted(calls, o) ==
    [i \in 1..Len(calls) |->
        [level |-> calls[i].level, what |-> calls[i].what,
         sinks |-> LogSinks(calls[i].details, o[i])]]

(***************************************************************************)
(* Handler state.                                                          *)
(***************************************************************************)
NoExpense == [description |-> NULL, amount |-> None, category |-> NULL,
              subCategory |-> NULL, date |-> NoDate]

\* A handler with no request in flight.
IdleHandler ==
    [pc           |-> "idle",
     kind         |-> "none",      \* the handler of the request
     id           |-> 0,           \* req.params.id (updateExpense)
     expense      |-> NoExpense,   \* the expense in hand (req.body, or the batch's current record)
     totalCount   |-> 0,           \* importedExpenses.length
     attempted    |-> 0,           \* records of the batch handed to insertExpense so far
     successCount |-> 0,
     errors       |-> 0,           \* errors.length
     categoryId   |-> 0,           \* the local categoryId; 0 while undefined / null
     calls        |-> << >>,       \* ghost: the logger calls of the request's last step
     submitted    |-> << >>,       \* data.categories handed to writeCategories
     deletedCount |-> 0,           \* deletedCount of a bulk delete's success response
     removed      |-> 0,           \* ghost: rows the bulk delete removed
     detached     |-> FALSE,       \* the response is sent; the writeCategories called without await goes on
     before       |-> {},          \* ghost: the categories table when the request arrived
     existed      |-> FALSE,       \* ghost: a row had the id when the update or delete was issued
     storeFailed  |-> FALSE,       \* ghost: a store call failed otherwise than by matching no row
     touched      |-> FALSE,       \* ghost: the request has issued a store call
     added        |-> 0,           \* ghost: expenses rows the request has inserted
     wrote        |-> FALSE,       \* ghost: the request has updated an expenses row
     seen         |-> 0,           \* ghost: rows the current lookup's filter matched
     created      |-> FALSE,       \* ghost: the current resolution inserted a categories row
     createFailed |-> 0]           \* ghost: category create steps of the request that failed

\* No response sent yet.
NoResponse == [status |-> 0, category |-> NULL, request |-> IdleHandler]

\* The handler goes on with locals r; no response is sent.
Set(p, r) == h' = [h EXCEPT ![p] = r] /\ UNCHANGED res

\* res.status(s).json(...) with locals r: the response is sent and the handler
\* ends.  cat is the category field of the response body.
Respond(p, r, s, cat) ==
    /\ h' = [h EXCEPT ![p] = IdleHandler]
    /\ res' = [status |-> s, category |-> cat,
               request |-> [r EXCEPT !.pc = "idle", !.categoryId = 0,
                                     !.seen = 0, !.created = FALSE]]

(***************************************************************************)
(* insertExpense, and how its caller goes on                               *)
(***************************************************************************)

\* (mutant) the catch of importExpenses leaves the loop and responds.
ThrownAborts(p, r) ==
    IF r.kind = "addExpense"
    THEN Respond(p, r, 500, NULL)
    ELSE Respond(p, [r EXCEPT !.errors = @ + 1], 200, NULL)

\* insertExpense threw: addExpense answers 500; importExpenses counts an
\* error and goes on with the loop.
Thrown(p, r) ==
    IF r.kind = "addExpense"
    THEN Respond(p, r, 500, NULL)
    ELSE Set(p, [r EXCEPT !.pc = "imp_loop", !.errors = @ + 1])

\* insertExpense returned the inserted row: addExpense answers 201 with the
\* category name of the request; importExpenses counts a success.
Returned(p, r) ==
    IF r.kind = "addExpense"
    THEN Respond(p, r, 201, r.expense.category)
    ELSE Set(p, [r EXCEPT !.pc = "imp_loop", !.successCount = @ + 1])

\* insertExpense awaits the logger calls `calls` and then goes on at pc,
\* unless one of them throws, which its catch rethrows.
AfterCalls(p, r, calls, o, pc) ==
    IF ThrowingCalls(calls, o) # {}
    THEN Thrown(p, [r EXCEPT !.calls = MadeCalls(calls, o)])
    ELSE Set(p, [r EXCEPT !.pc = pc, !.calls = calls])

\* The logger calls of insertExpense.
LookupFailedCalls == << Call("error", "category lookup", "plain") >>
FoundCalls == << Call("info", "category found", "none"),
                 Call("info", "inserting expense", "plain") >>
CreateFailedCalls == << Call("error", "category create", "plain") >>
CreatedCalls == << Call("info", "category created", "none"),
                   Call("info", "inserting expense", "plain") >>
InsertFailedCalls == << Call("error", "expense insert", "plain") >>

\* insertExpense is entered with locals r: the category lookup.
InsertLookup(p, r, storeError, o) ==
    LET rows == MatchingCategories(r.expense.category)
        r1   == [r EXCEPT !.touched = TRUE, !.seen = Cardinality(rows)]
    IN  IF SingleError(rows, storeError)
        THEN AfterCalls(p, r1, LookupFailedCalls, o, "ins_create")
        ELSE AfterCalls(p, [r1 EXCEPT !.categoryId = SingleId(rows)],
                        FoundCalls, o, "ins_insert")

\* The subCategories insertExpense gives a category it creates.
InsertSubCategories(e) == << e.subCategory >>

\* (mutant) the createError check is missing: insertExpense goes on.
OnCreateErrorContinue == "continue"

\* What insertExpense does when the category insert returns createError.
OnCreateError == "throw"

\* The category insert of insertExpense.
InsertCreate(p, createError, o) ==
    /\ h[p].pc = "ins_create"
    /\ LET e == h[p].expense IN
       IF createError
       THEN /\ IF OnCreateError = "throw"
               THEN Thrown(p, [h[p] EXCEPT
                                 !.createFailed = @ + 1,
                                 !.calls = MadeCalls(CreateFailedCalls, o)])
               ELSE Set(p, [h[p] EXCEPT !.pc = "ins_insert",
                                        !.createFailed = @ + 1,
                                        !.calls = << >>])
            /\ UNCHANGED << categories, nextCatId >>
       ELSE /\ categories' = categories \cup
                   {[id |-> nextCatId, name |-> e.category,
                     subCategories |-> InsertSubCategories(e)]}
            /\ nextCatId' = nextCatId + 1
            /\ AfterCalls(p, [h[p] EXCEPT !.created = TRUE,
                                          !.categoryId = nextCatId],
                          CreatedCalls, o, "ins_insert")
    /\ UNCHANGED << expenses, nextExpId, started >>

\* The expenses insert of insertExpense.
InsertRow(p, insertError, o) ==
    /\ h[p].pc = "ins_insert"
    /\ LET e == h[p].expense IN
       IF insertError
       THEN /\ Thrown(p, [h[p] EXCEPT
                            !.calls = MadeCalls(InsertFailedCalls, o)])
            /\ UNCHANGED << expenses, nextExpId >>
       ELSE /\ expenses' = expenses \cup
                   {[id |-> nextExpId, categoryId |-> h[p].categoryId,
                     description |-> e.description, amount |-> e.amount,
                     subCategory |-> e.subCategory, date |-> e.date]}
            /\ nextExpId' = nextExpId + 1
            /\ Returned(p, [h[p] EXCEPT !.added = @ + 1, !.calls = << >>])
    /\ UNCHANGED << categories, nextCatId, started >>

(***************************************************************************)
(* addExpense                                                              *)
(***************************************************************************)

\* (mutant) the validation forgets the amount.
MissingRequiredNoAmount(e) == FalsyStr(e.description) \/ FalsyStr(e.category)

\* The validation of addExpense.
MissingRequired(e) ==
    FalsyStr(e.description) \/ FalsyNum(e.amount) \/ FalsyStr(e.category)

\* POST /api/expenses arrives: the validation, then insertExpense up to its
\* first store call.
AddExpense(p, body, storeError, o) ==
    /\ h[p].pc = "idle"
    /\ started + 1 <= MaxRecords
    /\ started' = started + 1
    /\ LET r == [IdleHandler EXCEPT !.kind = "addExpense", !.expense = body] IN
       IF MissingRequired(body)
       THEN Respond(p, r, 400, NULL)
       ELSE InsertLookup(p, r, storeError, o)
    /\ UNCHANGED << categories, expenses, nextCatId, nextExpId >>

(***************************************************************************)
(* importExpenses                                                          *)
(***************************************************************************)

\* What a batch of n records takes of MaxRecords.
Cost(n) == IF n = 0 THEN 1 ELSE n

\* POST /api/expenses/import arrives with an array of n records, or with a
\* body that is no array.  The records are drawn one by one as the loop
\* reaches them: they are inputs, independent of the store.
ImportExpenses(p, isArray, n) ==
    /\ h[p].pc = "idle"
    /\ started + Cost(n) <= MaxRecords
    /\ started' = started + Cost(n)
    /\ LET r == [IdleHandler EXCEPT !.kind = "importExpenses"] IN
       IF ~isArray
       THEN Respond(p, r, 400, NULL)
       ELSE Set(p, [r EXCEPT !.pc = "imp_loop", !.totalCount = n])
    /\ UNCHANGED << categories, expenses, nextCatId, nextExpId >>

\* The for loop takes the next record and enters insertExpense with it.
ImportNext(p, body, storeError, o) ==
    /\ h[p].pc = "imp_loop"
    /\ h[p].attempted < h[p].totalCount
    /\ InsertLookup(p, [h[p] EXCEPT !.expense = body, !.attempted = @ + 1,
                                    !.categoryId = 0, !.created = FALSE],
                    storeError, o)
    /\ UNCHANGED << categories, expenses, nextCatId, nextExpId, started >>

\* The for loop is over: the response.
ImportDone(p) ==
    /\ h[p].pc = "imp_loop"
    /\ h[p].attempted >= h[p].totalCount
    /\ Respond(p, [h[p] EXCEPT !.calls = << >>], 200, NULL)
    /\ UNCHANGED << categories, expenses, nextCatId, nextExpId, started >>

(***************************************************************************)
(* updateExpense                                                           *)
(***************************************************************************)

\* The errors the expenses update can return.
UpdateErrors == {"none", "PGRST116", "other"}

\* .update(updateData): a key whose value is undefined is not sent, and the
\* column keeps its value; categoryId is sent only if it is truthy.
UpdatedRow(row, e, categoryId) ==
    [row EXCEPT
       !.description = IF e.description = NULL THEN @ ELSE e.description,
       !.amount      = IF e.amount = None THEN @ ELSE e.amount,
       !.subCategory = IF e.subCategory = NULL THEN @ ELSE e.subCategory,
       !.date        = IF e.date = NoDate THEN @ ELSE e.date,
       !.categoryId  = IF categoryId = 0 THEN @ ELSE categoryId]

\* data[0].category of the updated row: no insert or update of this file
\* writes a category column of expenses, so a row carries none.
RowCategory(row) == NULL

\* The expenses update of updateExpense with locals r, and the response.
UpdateRow(p, r, error) ==
    LET e    == r.expense
        rows == {x \in expenses : x.id = r.id}
        r1   == [r EXCEPT !.touched = TRUE, !.existed = (rows # {}),
                          !.storeFailed = (error = "other")]
    IN  IF error # "none"
        THEN /\ Respond(p, r1, IF error = "PGRST116" THEN 404 ELSE 500, NULL)
             /\ UNCHANGED expenses
        ELSE IF rows = {}
        THEN /\ Respond(p, r1, 404, NULL)
             /\ UNCHANGED expenses
        ELSE /\ expenses' = (expenses \ rows) \cup
                    {UpdatedRow(x, e, r.categoryId) : x \in rows}
             /\ Respond(p, [r1 EXCEPT !.wrote = TRUE], 200,
                        IF FalsyStr(e.category)
                        THEN RowCategory(CHOOSE x \in rows : TRUE)
                        ELSE e.category)

\* The category lookup of updateExpense with locals r.
UpdateLookup(p, r, storeError) ==
    LET rows == MatchingCategories(r.expense.category)
        r1   == [r EXCEPT !.touched = TRUE, !.seen = Cardinality(rows)]
    IN  IF SingleError(rows, storeError)
        THEN Set(p, [r1 EXCEPT !.pc = "upd_create"])
        ELSE Set(p, [r1 EXCEPT !.pc = "upd_update", !.categoryId = SingleId(rows)])

\* PUT /api/expenses/:id arrives: the category is looked up only if the body
\* names one; if it names none, the first store call is the update.
UpdateExpense(p, id, body, storeError, error) ==
    /\ h[p].pc = "idle"
    /\ started + 1 <= MaxRecords
    /\ started' = started + 1
    /\ LET r == [IdleHandler EXCEPT !.kind = "updateExpense", !.id = id,
                                    !.expense = body,
                                    !.before = categories] IN
       IF FalsyStr(body.category)
       THEN UpdateRow(p, r, error)
       ELSE UpdateLookup(p, r, storeError) /\ UNCHANGED expenses
    /\ UNCHANGED << categories, nextCatId, nextExpId >>

\* The subCategories updateExpense gives a category it creates.
UpdateSubCategories(e) ==
    << IF FalsyStr(e.subCategory) THEN "General" ELSE e.subCategory >>

\* The category insert of updateExpense.
UpdateCreate(p, createError) ==
    /\ h[p].pc = "upd_create"
    /\ LET e == h[p].expense IN
       IF createError
       THEN /\ Respond(p, [h[p] EXCEPT !.createFailed = @ + 1,
                                       !.storeFailed = TRUE], 500, NULL)
            /\ UNCHANGED << categories, nextCatId >>
       ELSE /\ categories' = categories \cup
                   {[id |-> nextCatId, name |-> e.category,
                     subCategories |-> UpdateSubCategories(e)]}
            /\ nextCatId' = nextCatId + 1
            /\ Set(p, [h[p] EXCEPT !.pc = "upd_update", !.created = TRUE,
                                   !.categoryId = nextCatId])
    /\ UNCHANGED << expenses, nextExpId, started >>

\* The expenses update of updateExpense after a category resolution.
UpdateWrite(p, error) ==
    /\ h[p].pc = "upd_update"
    /\ UpdateRow(p, h[p], error)
    /\ UNCHANGED << categories, nextCatId, nextExpId, started >>

(***************************************************************************)
(* The expense specification: the handlers of Procs run concurrently.      *)
(***************************************************************************)
ExpenseInit ==
    /\ categories = {}
    /\ expenses = {}
    /\ nextCatId = 1
    /\ nextExpId = 1
    /\ h = [p \in Procs |-> IdleHandler]
    /\ res = NoResponse
    /\ started = 0
    /\ logs = << >>

(***************************************************************************)
(* getAnimalSummary                                                        *)
(*                                                                         *)
(* An animals row is [id, status, purchasePrice, salePrice, currentWeight] *)
(* and a weight_records row is [animalId, weight, date]; the columns the   *)
(* summary's weight and financial rollups do not read are left out.        *)
(***************************************************************************)
AnimalStatuses == {"active", "sold", "dead", "ready_to_sell"}

\* readAnimals / readWeightRecords: the rows of the table, or [] when the
\* select returns an error.
ReadRows(table, error) == IF error THEN {} ELSE table

\* (mutant) the filter on animalId is missing.
LatestRecordsOfAny(a, weightRecords) ==
    {w \in weightRecords : \A v \in weightRecords : v.date <= w.date}

\* The records of animal a that can come first once a's records are sorted by
\* date, latest first: those with the greatest date.  Which of several
\* records of one date comes first is the store's order, which is any.
LatestRecords(a, weightRecords) ==
    {w \in weightRecords :
        /\ w.animalId = a.id
        /\ \A v \in weightRecords : v.animalId = a.id => v.date <= w.date}

NoRecord == [animalId |-> 0, weight |-> 0, date |-> 0]

\* The weight the map() callback returns for animal a, first being
\* animalWeightRecords[0] or NoRecord when a has no weight record.
AnimalWeight(a, first) ==
    IF first # NoRecord THEN first.weight ELSE OrZero(a.currentWeight)

RECURSIVE Sum(_, _)
\* reduce((sum, x) => sum + f[x], 0) over the rows S.
Sum(S, f) ==
    IF S = {} THEN 0
    ELSE LET x == CHOOSE y \in S : TRUE IN f[x] + Sum(S \ {x}, f)

\* (mutant) the filter keeps a weight of 0.
IncludedWeightZero(weight) == weight >= 0

\* The rows .filter() keeps of the per-animal weights.
IncludedWeight(weight) == weight > 0

\* averageWeight as the exact quotient num / den of the code's division;
\* 0 / 1 when the division is skipped.
AverageWeight(weights, included) ==
    IF Cardinality(included) > 0
    THEN [num |-> Sum(included, weights), den |-> Cardinality(included)]
    ELSE [num |-> 0, den |-> 1]

\* (mutant) the status filter is missing.
RevenueAnimalsAll(as) == as

\* The animals whose salePrice counts as revenue.
RevenueAnimals(as) == {a \in as : a.status = "sold"}

\* The summary of the fetched animals as and weight records ws, with first[a]
\* the first of a's weight records.
Summarize(as, ws, first) ==
    LET weights  == [a \in as |-> AnimalWeight(a, first[a])]
        included == {a \in as : IncludedWeight(weights[a])}
        totalInvestment == Sum(as, [a \in as |-> OrZero(a.purchasePrice)])
        totalRevenue ==
            Sum(RevenueAnimals(as), [a \in as |-> OrZero(a.salePrice)])
    IN  [status          |-> 200,
         totalAnimals    |-> Cardinality(as),
         activeAnimals   |-> Cardinality({a \in as : a.status = "active"}),
         soldAnimals     |-> Cardinality({a \in as : a.status = "sold"}),
         readyToSell     |-> Cardinality({a \in as : a.status = "ready_to_sell"}),
         deadAnimals     |-> Cardinality({a \in as : a.status = "dead"}),
         averageWeight   |-> AverageWeight(weights, included),
         totalInvestment |-> totalInvestment,
         totalRevenue    |-> totalRevenue,
         profitLoss      |-> totalRevenue - totalInvestment,
         \* ghost: what the handler fetched
         fetched         |-> [animals |-> as, weightRecords |-> ws, first |-> first]]

\* GET /api/animals/summary: the two reads, the aggregation, the response;
\* readError is a ghost field: one of the two reads failed.
GetAnimalSummary(animalsError, weightsError) ==
    /\ LET as == ReadRows(animals, animalsError)
           ws == ReadRows(weight_records, weightsError)
       IN  \E first \in [as -> ws \cup {NoRecord}] :
              /\ \A a \in as :
                    IF LatestRecords(a, ws) = {}
                    THEN first[a] = NoRecord
                    ELSE first[a] \in LatestRecords(a, ws)
              /\ summary' = Summarize(as, ws, first)
                              @@ [readError |-> animalsError \/ weightsError]
    /\ UNCHANGED << animals, weight_records >>

NoSummary == [status |-> 0]

AnimalIdle ==
    /\ animals = {}
    /\ weight_records = {}
    /\ summary = NoSummary

\* Nothing logged, no task or breeding record, no row in the view.
LoggerIdle == error_logs = << >> /\ console = << >> /\ logCalls = 0
CrudIdle ==
    /\ tasks = {}
    /\ breeding_records = {}
    /\ vaccination_records = {}
    /\ health_records = {}
NoListing == [status |-> 0]
ReaderIdle == allexpenses = << >> /\ listing = NoListing

(***************************************************************************)
(* The summary specification: getAnimalSummary over every animals and      *)
(* weight_records table within the bounds.                                 *)
(***************************************************************************)
AnimalIds == 1..MaxAnimals

\* Tables of at most MaxAnimals rows with distinct ids, the attributes of a
\* row drawn from attrs.
AnimalTables(attrs) ==
    UNION {[ids -> attrs] : ids \in SUBSET AnimalIds}

RowsOf(t) ==
    {[id |-> i, status |-> t[i].status, purchasePrice |-> t[i].purchasePrice,
      salePrice |-> t[i].salePrice, currentWeight |-> t[i].currentWeight]
        : i \in DOMAIN t}

\* Animals that differ in status and prices, for the financial rollups.
FinanceAttrs ==
    [status : {"active", "sold", "dead"}, purchasePrice : {None, Some(100), Some(200)},
     salePrice : {None, Some(350)}, currentWeight : {None}]

\* Animals that differ in currentWeight, for the weight rollup.
WeightAttrs ==
    [status : {"active"}, purchasePrice : {None}, salePrice : {None},
     currentWeight : {None, Some(0), Some(45)}]

\* Weight records of the animal ids; a record whose animal has no row in the
\* animals table is an orphan.
WeightRows ==
    [animalId : AnimalIds, weight : {0, 30, 50}, date : {1, 2}]

\* Tables of at most MaxWeightRecords weight records.
WeightTables ==
    UNION {{{f[i] : i \in 1..k} : f \in [1..k -> WeightRows]}
              : k \in 0..MaxWeightRecords}

SummaryInit ==
    /\ ExpenseInit
    /\ LoggerIdle
    /\ CrudIdle
    /\ ReaderIdle
    /\ summary = NoSummary
    /\ \/ /\ animals \in {RowsOf(t) : t \in AnimalTables(FinanceAttrs)}
          /\ weight_records = {}
       \/ /\ animals \in {RowsOf(t) : t \in AnimalTables(WeightAttrs)}
          /\ weight_records \in WeightTables

SummaryNext ==
    /\ \E animalsError \in BOOLEAN, weightsError \in BOOLEAN :
          GetAnimalSummary(animalsError, weightsError)
    /\ UNCHANGED << expenseVars, loggerVars, crudVars, readerVars >>

SpecSummary == SummaryInit /\ [][SummaryNext]_vars

Init == ExpenseInit /\ AnimalIdle /\ LoggerIdle /\ CrudIdle /\ ReaderIdle

\* The logger calls of the step handler p has just taken.
StepCalls(p) == IF h[p].pc = "idle" THEN res.request.calls ELSE h[p].calls

\* A step of handler p on the categories and expenses tables, with o[i] the
\* outcome of the i-th logger call of the step; bodies are the request bodies
\* and lookupErrors the error outcomes a category lookup can have.
HandlerCore(p, bodies, lookupErrors, o) ==
    \/ \E body \in bodies, storeError \in lookupErrors :
          AddExpense(p, body, storeError, o)
    \/ \E isArray \in BOOLEAN, n \in 0..MaxRecords : ImportExpenses(p, isArray, n)
    \/ \E body \in bodies, storeError \in lookupErrors :
          ImportNext(p, body, storeError, o)
    \/ ImportDone(p)
    \/ \E createError \in BOOLEAN : InsertCreate(p, createError, o)
    \/ \E insertError \in BOOLEAN : InsertRow(p, insertError, o)
    \/ \E id \in 1..nextExpId, body \in bodies \cap UpdateBodies,
          storeError \in lookupErrors, error \in UpdateErrors :
            UpdateExpense(p, id, body, storeError, error)
    \/ \E createError \in BOOLEAN : UpdateCreate(p, createError)
    \/ \E error \in UpdateErrors : UpdateWrite(p, error)

\* The step with what it logs, the outcomes of the logger's inserts drawn
\* from logOutcomes.
HandlerStepWith(p, bodies, lookupErrors, logOutcomes) ==
    \E o \in [1..2 -> logOutcomes] :
        /\ HandlerCore(p, bodies, lookupErrors, o)
        /\ logs' = Emitted(StepCalls(p)', o)

\* A step of handler p over a store whose error_logs inserts succeed.
HandlerStep(p, lookupErrors) ==
    HandlerStepWith(p, Bodies, lookupErrors, {"ok"})

\* What the expense handlers leave alone.
otherVars == << animalVars, loggerVars, crudVars, readerVars >>

Next == \E p \in Procs : HandlerStep(p, BOOLEAN) /\ UNCHANGED otherVars

Spec == Init /\ [][Next]_vars

\* The same handlers, one request at a time.
SeqNext ==
    \E p \in Procs :
        /\ \A q \in Procs \ {p} : h[q].pc = "idle"
        /\ HandlerStep(p, BOOLEAN)
        /\ UNCHANGED otherVars

SpecSeq == Init /\ [][SeqNext]_vars

\* The concurrent handlers over a store whose category lookups never return
\* a store error (every other call can still fail): the behaviours of Spec
\* in which a lookup misses only if the name has no row.
LookupOkNext == \E p \in Procs : HandlerStep(p, {FALSE}) /\ UNCHANGED otherVars

SpecLookupOk == Init /\ [][LookupOkNext]_vars

(***************************************************************************)
(* readExpenses and getExpenses                                            *)
(*                                                                         *)
(* A row of the allexpenses view is a function from its keys to values; a  *)
(* key the row does not have maps to NULL (NoDate, None).                  *)
(***************************************************************************)

\* The text fields of an expense, each with its capitalized label, its
\* camelCase key and the default readExpenses gives it.
TextFields ==
    { [label |-> "Type",         key |-> "type",        default |-> "Expense"],
      [label |-> "Description",  key |-> "description", default |-> "No description"],
      [label |-> "Paid By",      key |-> "paidBy",      default |-> "Unknown"],
      [label |-> "Category",     key |-> "category",    default |-> "Other"],
      [label |-> "Sub-Category", key |-> "subCategory", default |-> "General"],
      [label |-> "Source",       key |-> "source",      default |-> "Unknown"],
      [label |-> "Notes",        key |-> "notes",       default |-> ""] }

\* item[first] || item[second] || default, on text.
OrText(first, second, default) ==
    IF ~FalsyStr(first) THEN first
    ELSE IF ~FalsyStr(second) THEN second
    ELSE default

\* item.Date || item.date
OrDate(first, second) == IF first # NoDate THEN first ELSE second

\* parseFloat(item.Amount || item.amount || 0)
OrAmount(first, second) ==
    IF ~FalsyNum(first) THEN first[1]
    ELSE IF ~FalsyNum(second) THEN second[1]
    ELSE 0

\* The object the map() callback of readExpenses returns for item, the
\* index-th row (from 0).
ReadExpense(item, index, today) ==
    [id          |-> index + 1,
     date        |-> FormattedDate(OrDate(item["Date"], item["date"]), today),
     type        |-> OrText(item["Type"], item["type"], "Expense"),
     description |-> OrText(item["Description"], item["description"],
                            "No description"),
     amount      |-> OrAmount(item["Amount"], item["amount"]),
     paidBy      |-> OrText(item["Paid By"], item["paidBy"], "Unknown"),
     category    |-> OrText(item["Category"], item["category"], "Other"),
     subCategory |-> OrText(item["Sub-Category"], item["subCategory"],
                            "General"),
     source      |-> OrText(item["Source"], item["source"], "Unknown"),
     notes       |-> OrText(item["Notes"], item["notes"], "")]

\* GET /api/expenses: readExpenses, whose select returns the rows or an
\* error and no rows, and the response.
GetExpenses(error) ==
    /\ listing' =
          [status    |-> 200,
           expenses  |-> IF error THEN << >>
                         ELSE [i \in 1..Len(allexpenses) |->
                                  ReadExpense(allexpenses[i], i - 1, Today)],
           readError |-> error]
    /\ UNCHANGED allexpenses

\* The keys of a row of the view.
TextKeys == {f.label : f \in TextFields} \cup {f.key : f \in TextFields}
ItemKeys == TextKeys \cup {"Date", "date", "Amount", "amount"}

\* The values a key can have.
KeyValues(k) ==
    IF k \in {"Date", "date"} THEN {NoDate, IsoDate, MdyDate, OtherDate}
    ELSE IF k \in {"Amount", "amount"} THEN {None, Some(0), Some(5), Some(7)}
    ELSE {NULL, "", "a", "b"}

\* The row with no key set.
EmptyItem ==
    [k \in ItemKeys |->
        IF k \in {"Date", "date"} THEN NoDate
        ELSE IF k \in {"Amount", "amount"} THEN None
        ELSE NULL]

\* The pairs (label, camelCase key) of one field.
KeyPairs ==
    {<< f.label, f.key >> : f \in TextFields}
        \cup {<< "Date", "date" >>, << "Amount", "amount" >>}

\* The rows that set the two keys of one field, in every combination.
Items ==
    UNION {{[EmptyItem EXCEPT ![kp[1]] = v[1], ![kp[2]] = v[2]] :
               v \in KeyValues(kp[1]) \X KeyValues(kp[2])} :
           kp \in KeyPairs}

ReaderInit ==
    /\ ExpenseInit
    /\ AnimalIdle
    /\ LoggerIdle
    /\ CrudIdle
    /\ listing = NoListing
    /\ allexpenses \in {<< i >> : i \in Items}

ReaderNext ==
    /\ \E error \in BOOLEAN : GetExpenses(error)
    /\ UNCHANGED << expenseVars, animalVars, loggerVars, crudVars >>

SpecReader == ReaderInit /\ [][ReaderNext]_vars

(***************************************************************************)
(* The logger specification: calls of ErrorLogger.log (through info, warn, *)
(* error, debug or directly) with every details argument and every outcome *)
(* of the insert.                                                          *)
(***************************************************************************)

\* logger.log(level, message, source, details): the entry goes to the
\* error_logs table or to the console, and the call returns or throws.
Log(level, details, outcome) ==
    /\ logCalls < MaxLogCalls
    /\ logCalls' = logCalls + 1
    /\ LET sinks == LogSinks(details, outcome) IN
          /\ error_logs' = IF "error_logs" \in sinks
                           THEN Append(error_logs, level) ELSE error_logs
          /\ console' = IF "console" \in sinks
                        THEN Append(console, level) ELSE console
          /\ logs' = << [level |-> level, what |-> "log", sinks |-> sinks,
                         details |-> details, outcome |-> outcome,
                         threw |-> LogThrows(details, outcome)] >>

LoggerNext ==
    /\ \E level \in LogLevels, details \in LogDetails, outcome \in LogOutcomes :
          Log(level, details, outcome)
    /\ UNCHANGED << categories, expenses, nextCatId, nextExpId, h, res, started,
                    animalVars, crudVars, readerVars >>

SpecLogger == Init /\ [][LoggerNext]_vars

(***************************************************************************)
(* The update and delete handlers of expenses, tasks, animals and          *)
(* breeding_records.  A tasks row is [id, status, completedAt], a          *)
(* breeding_records row is [id, motherId, totalKids]; the other columns    *)
(* are passed on in the same way and are left out.  Apart from             *)
(* updateExpense each handler makes one store call, so a request is one    *)
(* step.                                                                   *)
(***************************************************************************)

\* The error of a call ending in .single() whose filter matched rows: the
\* store's failure, or PGRST116 when no row matched.
SingleRowError(rows, storeError) ==
    IF storeError THEN "other"
    ELSE IF rows = {} THEN "PGRST116" ELSE "none"

\* The error of a call without .single(): matching no row is no error.
ManyRowsError(storeError) == IF storeError THEN "other" ELSE "none"

\* (mutant) every error of the store is answered as an internal failure.
ErrorStatusAlways500(code) == 500

\* if (error.code === 'PGRST116') 404, otherwise throw, caught as 500.
ErrorStatus(code) == IF code = "PGRST116" THEN 404 ELSE 500

\* A request arrives at a handler that answers in the same step.
Arrives ==
    /\ \A p \in Procs : h[p].pc = "idle"
    /\ started + 1 <= MaxRecords
    /\ started' = started + 1

\* The response of such a handler: status s to the request of the kind for
\* the id, whose store call matched rows and returned error.
Answer(kind, id, rows, error, s) ==
    /\ res' = [status |-> s, category |-> NULL,
               request |-> [IdleHandler EXCEPT
                              !.kind = kind, !.id = id, !.touched = TRUE,
                              !.existed = (rows # {}),
                              !.storeFailed = (error = "other")]]
    /\ logs' = << >>
    /\ UNCHANGED h

\* .update(updateData) of updateTask: undefined keys are not sent;
\* completedAt is sent when the status becomes completed.
UpdatedTask(row, body) ==
    [row EXCEPT
       !.status      = IF body.status = NULL THEN @ ELSE body.status,
       !.completedAt = IF body.status = "completed" THEN Today ELSE @]

\* PUT /api/tasks/:id
UpdateTask(id, body, storeError) ==
    LET rows  == {t \in tasks : t.id = id}
        error == SingleRowError(rows, storeError)
    IN  /\ Arrives
        /\ IF error # "none"
           THEN /\ Answer("updateTask", id, rows, error, ErrorStatus(error))
                /\ UNCHANGED tasks
           ELSE /\ tasks' = (tasks \ rows) \cup
                               {UpdatedTask(t, body) : t \in rows}
                /\ Answer("updateTask", id, rows, error, 200)
        /\ UNCHANGED << categories, expenses, nextCatId, nextExpId,
                        breeding_records, childVars, animalVars >>

\* DELETE /api/tasks/:id: .delete().eq().select().single()
DeleteTask(id, storeError) ==
    LET rows  == {t \in tasks : t.id = id}
        error == SingleRowError(rows, storeError)
    IN  /\ Arrives
        /\ IF error # "none"
           THEN /\ Answer("deleteTask", id, rows, error, ErrorStatus(error))
                /\ UNCHANGED tasks
           ELSE /\ tasks' = tasks \ rows
                /\ Answer("deleteTask", id, rows, error, 200)
        /\ UNCHANGED << categories, expenses, nextCatId, nextExpId,
                        breeding_records, childVars, animalVars >>

\* .update(updateData) of updateAnimal: undefined keys are not sent.
UpdatedAnimal(row, body) ==
    [row EXCEPT
       !.status        = IF body.status = NULL THEN @ ELSE body.status,
       !.purchasePrice = IF body.purchasePrice = None THEN @
                         ELSE body.purchasePrice,
       !.salePrice     = IF body.salePrice = None THEN @ ELSE body.salePrice,
       !.currentWeight = IF body.currentWeight = None THEN @
                         ELSE body.currentWeight]

\* PUT /api/animals/:id
UpdateAnimal(id, body, storeError) ==
    LET rows  == {a \in animals : a.id = id}
        error == SingleRowError(rows, storeError)
    IN  /\ Arrives
        /\ IF error # "none"
           THEN /\ Answer("updateAnimal", id, rows, error, ErrorStatus(error))
                /\ UNCHANGED animals
           ELSE /\ animals' = (animals \ rows) \cup
                                 {UpdatedAnimal(a, body) : a \in rows}
                /\ Answer("updateAnimal", id, rows, error, 200)
        /\ UNCHANGED << categories, expenses, nextCatId, nextExpId,
                        crudVars, weight_records, summary >>

\* DELETE /api/animals/:id: .delete().eq(), with no select and no single;
\* any error is thrown and caught as 500.
DeleteAnimal(id, storeError) ==
    LET rows  == {a \in animals : a.id = id}
        error == ManyRowsError(storeError)
    IN  /\ Arrives
        /\ IF error # "none"
           THEN /\ Answer("deleteAnimal", id, rows, error, 500)
                /\ UNCHANGED animals
           ELSE /\ animals' = animals \ rows
                /\ Answer("deleteAnimal", id, rows, error, 200)
        /\ UNCHANGED << categories, expenses, nextCatId, nextExpId,
                        crudVars, weight_records, summary >>

\* .update(updateData) of updateBreedingRecord: motherId is always sent,
\* parseInt of an absent motherId being NaN, which is sent as null.
UpdatedBreedingRecord(row, body) ==
    [row EXCEPT
       !.motherId  = body.motherId,
       !.totalKids = IF body.totalKids = None THEN @ ELSE body.totalKids]

\* PUT /api/breeding-records/:id
UpdateBreedingRecord(id, body, storeError) ==
    LET rows  == {b \in breeding_records : b.id = id}
        error == SingleRowError(rows, storeError)
    IN  /\ Arrives
        /\ IF error # "none"
           THEN /\ Answer("updateBreedingRecord", id, rows, error,
                          ErrorStatus(error))
                /\ UNCHANGED breeding_records
           ELSE /\ breeding_records' = (breeding_records \ rows) \cup
                        {UpdatedBreedingRecord(b, body) : b \in rows}
                /\ Answer("updateBreedingRecord", id, rows, error, 200)
        /\ UNCHANGED << categories, expenses, nextCatId, nextExpId, tasks,
                        childVars, animalVars >>

\* DELETE /api/expenses/:id: .delete().eq(), with no select and no single.
DeleteExpense(id, storeError) ==
    LET rows  == {x \in expenses : x.id = id}
        error == ManyRowsError(storeError)
    IN  /\ Arrives
        /\ IF error # "none"
           THEN /\ Answer("deleteExpense", id, rows, error, ErrorStatus(error))
                /\ UNCHANGED expenses
           ELSE /\ expenses' = expenses \ rows
                /\ Answer("deleteExpense", id, rows, error, 200)
        /\ UNCHANGED << categories, nextCatId, nextExpId, crudVars,
                        animalVars >>

\* The rows of the table that .in('id', numericIds) matches.
RowsIn(table, numericIds) ==
    {x \in table : \E i \in 1..Len(numericIds) : x.id = numericIds[i]}

\* The success response of a bulk delete that removed rows, with its
\* deletedCount.
AnswerDeleted(kind, rows, deletedCount) ==
    /\ res' = [status |-> 200, category |-> NULL,
               request |-> [IdleHandler EXCEPT
                              !.kind = kind, !.touched = TRUE,
                              !.existed = (rows # {}),
                              !.deletedCount = deletedCount,
                              !.removed = Cardinality(rows)]]
    /\ logs' = << >>
    /\ UNCHANGED h

\* deletedCount of bulkDeleteExpenses: numericIds.length.
DeletedExpensesCount(numericIds) == Len(numericIds)

\* deletedCount of bulkDeleteTasks: data?.length || 0, data being the rows
\* the delete returned.
DeletedTasksCount(data, numericIds) == Cardinality(data)

\* POST /api/expenses/bulk-delete with body {ids}; numericIds are the ids
\* that parse as integers, in the order and with the repetitions of ids.
BulkDeleteExpenses(isArray, numericIds, storeError) ==
    LET rows  == RowsIn(expenses, numericIds)
        error == ManyRowsError(storeError)
    IN  /\ Arrives
        /\ IF ~isArray \/ Len(numericIds) = 0
           THEN /\ res' = [status |-> 400, category |-> NULL,
                           request |-> [IdleHandler EXCEPT
                                          !.kind = "bulkDeleteExpenses"]]
                /\ logs' = << >>
                /\ UNCHANGED << h, expenses >>
           ELSE IF error # "none"
           THEN /\ Answer("bulkDeleteExpenses", 0, rows, error, 500)
                /\ UNCHANGED expenses
           ELSE /\ expenses' = expenses \ rows
                /\ AnswerDeleted("bulkDeleteExpenses", rows,
                                 DeletedExpensesCount(numericIds))
        /\ UNCHANGED << categories, nextCatId, nextExpId, crudVars,
                        animalVars >>

\* POST /api/tasks/bulk-delete with body {ids}: .delete().in('id',
\* numericIds).select(); an empty list of ids is sent to the store.
BulkDeleteTasks(isArray, numericIds, storeError) ==
    LET rows  == RowsIn(tasks, numericIds)
        error == ManyRowsError(storeError)
    IN  /\ Arrives
        /\ IF ~isArray
           THEN /\ res' = [status |-> 400, category |-> NULL,
                           request |-> [IdleHandler EXCEPT
                                          !.kind = "bulkDeleteTasks"]]
                /\ logs' = << >>
                /\ UNCHANGED << h, tasks >>
           ELSE IF error # "none"
           THEN /\ Answer("bulkDeleteTasks", 0, rows, error, 500)
                /\ UNCHANGED tasks
           ELSE /\ tasks' = tasks \ rows
                /\ AnswerDeleted("bulkDeleteTasks", rows,
                                 DeletedTasksCount(rows, numericIds))
        /\ UNCHANGED << categories, expenses, nextCatId, nextExpId,
                        breeding_records, childVars, animalVars >>

\* The id lists of bulk deletes: empty, of an id with a row, of an id
\* without, with a repeated id, of both ids.
IdLists == {<< >>, << 1 >>, << 2 >>, << 1, 1 >>, << 1, 2 >>}

\* The ids requests address: that of the row each table holds at first,
\* and one no row has.
CrudIds == {1, 2}

TaskUpdates == {[status |-> s] : s \in {NULL, "in-progress", "completed"}}

AnimalUpdates ==
    {[status |-> s, purchasePrice |-> None, salePrice |-> sp,
      currentWeight |-> None] : s \in {NULL, "sold"}, sp \in {None, Some(350)}}

BreedingUpdates ==
    {[motherId |-> m, totalKids |-> k] :
        m \in {None, Some(1)}, k \in {None, Some(2)}}

\* Each table holds one row, of id 1; the expense is of category Feed.
CrudInit ==
    /\ categories = {[id |-> 1, name |-> "Feed", subCategories |-> << "Hay" >>]}
    /\ expenses = {[id |-> 1, categoryId |-> 1, description |-> "d",
                    amount |-> Some(5), subCategory |-> "Hay",
                    date |-> IsoDate]}
    /\ nextCatId = 2
    /\ nextExpId = 2
    /\ h = [p \in Procs |-> IdleHandler]
    /\ res = NoResponse
    /\ started = 0
    /\ logs = << >>
    /\ animals = {[id |-> 1, status |-> "active", purchasePrice |-> Some(100),
                   salePrice |-> None, currentWeight |-> Some(45)]}
    /\ weight_records = {}
    /\ summary = NoSummary
    /\ tasks = {[id |-> 1, status |-> "pending", completedAt |-> NoDate]}
    /\ breeding_records = {[id |-> 1, motherId |-> Some(1), totalKids |-> None]}
    /\ vaccination_records = {[id |-> 1, animalId |-> 1]}
    /\ health_records = {[id |-> 1, animalId |-> 1]}
    /\ LoggerIdle
    /\ ReaderIdle

\* A step of updateExpense, one request at a time.
UpdateExpenseStep ==
    \E p \in Procs :
        /\ \A q \in Procs \ {p} : h[q].pc = "idle"
        /\ \/ \E id \in CrudIds, body \in UpdateBodies,
                 storeError \in BOOLEAN, error \in UpdateErrors :
                   UpdateExpense(p, id, body, storeError, error)
           \/ \E createError \in BOOLEAN : UpdateCreate(p, createError)
           \/ \E error \in UpdateErrors : UpdateWrite(p, error)
        /\ logs' = << >>
        /\ UNCHANGED << animalVars, crudVars >>

CrudNext ==
    /\ \/ UpdateExpenseStep
       \/ \E id \in CrudIds, storeError \in BOOLEAN : DeleteExpense(id, storeError)
       \/ \E isArray \in BOOLEAN, numericIds \in IdLists,
             storeError \in BOOLEAN :
               BulkDeleteExpenses(isArray, numericIds, storeError)
       \/ \E isArray \in BOOLEAN, numericIds \in IdLists,
             storeError \in BOOLEAN :
               BulkDeleteTasks(isArray, numericIds, storeError)
       \/ \E id \in CrudIds, body \in TaskUpdates, storeError \in BOOLEAN :
             UpdateTask(id, body, storeError)
       \/ \E id \in CrudIds, storeError \in BOOLEAN : DeleteTask(id, storeError)
       \/ \E id \in CrudIds, body \in AnimalUpdates, storeError \in BOOLEAN :
             UpdateAnimal(id, body, storeError)
       \/ \E id \in CrudIds, storeError \in BOOLEAN : DeleteAnimal(id, storeError)
       \/ \E id \in CrudIds, body \in BreedingUpdates, storeError \in BOOLEAN :
             UpdateBreedingRecord(id, body, storeError)
    /\ UNCHANGED << loggerVars, readerVars >>

SpecCrud == CrudInit /\ [][CrudNext]_vars

\* Request bodies that differ in the date: of the form YYYY-MM-DD, of the
\* form M/D/YYYY, of neither form, and absent.
IngestBodies ==
    {[FullExpense EXCEPT !.date = d] :
        d \in {IsoDate, MdyDate, OtherDate, NoDate}}

\* The handlers, one request at a time, on bodies that differ in the date.
IngestNext ==
    \E p \in Procs :
        /\ \A q \in Procs \ {p} : h[q].pc = "idle"
        /\ HandlerStepWith(p, IngestBodies, BOOLEAN, {"ok"})
        /\ UNCHANGED otherVars

SpecIngest == Init /\ [][IngestNext]_vars

\* The handlers, one request at a time, over a store whose error_logs
\* inserts succeed, return an error or throw.
LoggedNext ==
    \E p \in Procs :
        /\ \A q \in Procs \ {p} : h[q].pc = "idle"
        /\ HandlerStepWith(p, {FullExpense}, BOOLEAN, LogOutcomes)
        /\ UNCHANGED otherVars

SpecLogged == Init /\ [][LoggedNext]_vars

\* Request bodies that differ in the sign of the amount.
AmountBodies == {[FullExpense EXCEPT !.amount = Some(a)] : a \in {5, -5}}

\* The handlers, one request at a time, on bodies that differ in the sign
\* of the amount.
AmountNext ==
    \E p \in Procs :
        /\ \A q \in Procs \ {p} : h[q].pc = "idle"
        /\ HandlerStepWith(p, AmountBodies, BOOLEAN, {"ok"})
        /\ UNCHANGED otherVars

SpecAmount == Init /\ [][AmountNext]_vars

(***************************************************************************)
(* The orphan specification: deleteAnimal and getAnimalSummary over        *)
(* animals that have child records.                                        *)
(***************************************************************************)

\* Every id of AnimalIds has an animals row; an animal has at most one
\* weight record, and one record in each of the other child tables.
OrphanInit ==
    /\ ExpenseInit
    /\ LoggerIdle
    /\ ReaderIdle
    /\ summary = NoSummary
    /\ tasks = {}
    /\ animals \in {RowsOf(t) : t \in [AnimalIds -> WeightAttrs]}
    /\ weight_records \in
          {{[animalId |-> i, weight |-> 30, date |-> 1] : i \in ids}
              : ids \in SUBSET AnimalIds}
    /\ breeding_records =
          {[id |-> i, motherId |-> Some(i), totalKids |-> None] : i \in AnimalIds}
    /\ vaccination_records = {[id |-> i, animalId |-> i] : i \in AnimalIds}
    /\ health_records = {[id |-> i, animalId |-> i] : i \in AnimalIds}

OrphanNext ==
    /\ \/ \E id \in AnimalIds, storeError \in BOOLEAN : DeleteAnimal(id, storeError)
       \/ /\ GetAnimalSummary(FALSE, FALSE)
          /\ UNCHANGED << expenseVars, crudVars >>
    /\ UNCHANGED << loggerVars, readerVars >>

SpecOrphan == OrphanInit /\ [][OrphanNext]_vars

(***************************************************************************)
(* writeCategories, saveCategories and populateCategories                  *)
(***************************************************************************)

\* The result of the delete of writeCategories is not examined: no outcome
\* of it ends the write.
DeleteAborts(deleteError) == FALSE

\* .delete().gte('id', 0): every row goes, unless the store fails.
AfterDelete(deleteError) == IF deleteError THEN categories ELSE {}

\* categoriesToInsert, as the rows the store makes of it: the ids are the
\* next of the serial.
InsertedCategories(submitted) ==
    {[id |-> nextCatId + i - 1, name |-> submitted[i].name,
      subCategories |-> IF submitted[i].subCategories = NULL THEN << >>
                        ELSE submitted[i].subCategories]
        : i \in 1..Len(submitted)}

\* writeCategories has thrown with locals r.  saveCategories catches and
\* answers 500.  The promise populateCategories left without await and
\* without catch is rejected with no handler: the runtime either reports
\* it and goes on, or ends the process (exits), and every request in
\* flight is then lost without a response.
WriteThrown(p, r, exits) ==
    IF ~r.detached
    THEN Respond(p, [r EXCEPT !.storeFailed = TRUE], 500, NULL)
    ELSE /\ h' = [q \in Procs |->
                    IF q = p \/ h[q].pc = "idle" THEN IdleHandler
                    ELSE IF exits THEN [h[q] EXCEPT !.pc = "lost"]
                    ELSE h[q]]
         /\ UNCHANGED res

\* writeCategories has returned with locals r.
WriteReturned(p, r) ==
    IF ~r.detached
    THEN Respond(p, r, 200, NULL)
    ELSE h' = [h EXCEPT ![p] = IdleHandler] /\ UNCHANGED res

\* The delete of writeCategories with locals r, and what follows it up to
\* the next store call.
WriteDelete(p, r, deleteError, exits) ==
    IF DeleteAborts(deleteError)
    THEN WriteThrown(p, r, exits) /\ UNCHANGED categories
    ELSE LET r1 == [r EXCEPT !.storeFailed = deleteError] IN
         /\ categories' = AfterDelete(deleteError)
         /\ IF Len(r.submitted) > 0
            THEN h' = [h EXCEPT ![p] = [r1 EXCEPT !.pc = "wc_insert"]]
                 /\ UNCHANGED res
            ELSE WriteReturned(p, r1)

\* The insert of writeCategories.
WriteInsert(p, insertError, exits) ==
    /\ h[p].pc = "wc_insert"
    /\ IF insertError
       THEN /\ WriteThrown(p, h[p], exits)
            /\ UNCHANGED << categories, nextCatId >>
       ELSE /\ categories' = categories \cup InsertedCategories(h[p].submitted)
            /\ nextCatId' = nextCatId + Len(h[p].submitted)
            /\ WriteReturned(p, h[p])
    /\ UNCHANGED << expenses, nextExpId, started >>

\* POST /api/expenses/categories arrives with body {categories}: the
\* validation, then writeCategories up to its second store call.
SaveCategories(p, isArray, submitted, deleteError) ==
    /\ h[p].pc = "idle"
    /\ started + 1 <= MaxRecords
    /\ started' = started + 1
    /\ LET r == [IdleHandler EXCEPT !.kind = "saveCategories",
                                    !.submitted = submitted,
                                    !.before = categories] IN
       IF ~isArray
       THEN Respond(p, r, 400, NULL) /\ UNCHANGED categories
       ELSE WriteDelete(p, [r EXCEPT !.touched = TRUE], deleteError, FALSE)
    /\ UNCHANGED << expenses, nextCatId, nextExpId >>

\* The names and subCategories populateCategories can derive, in the order
\* of its sorts.
CategoryNames == << "Feed", "Vet" >>
SubCategoryNames == << "General", "Hay" >>

\* The categories populateCategories derives from the expenses it read:
\* one per category name, with the subCategories seen for it, an absent
\* subCategory being "General".
Derived(read) ==
    LET subsOf(n) ==
            {IF FalsyStr(x.subCategory) THEN "General" ELSE x.subCategory
                : x \in {y \in read : y.category = n}}
        InOrder(names, S) == SelectSeq(names, LAMBDA n : n \in S)
    IN  [i \in 1..Len(InOrder(CategoryNames, {x.category : x \in read})) |->
            LET n == InOrder(CategoryNames, {x.category : x \in read})[i]
            IN  [name |-> n,
                 subCategories |-> InOrder(SubCategoryNames, subsOf(n))]]

\* POST /api/expenses/populate-categories arrives: readExpenses returns
\* read ({} when its select fails), writeCategories is called without
\* await and runs up to its first store call, and the success response is
\* sent.
PopulateCategories(p, read) ==
    /\ h[p].pc = "idle"
    /\ started + 1 <= MaxRecords
    /\ started' = started + 1
    /\ LET r == [IdleHandler EXCEPT !.kind = "populateCategories",
                                    !.submitted = Derived(read),
                                    !.before = categories,
                                    !.touched = TRUE] IN
          /\ res' = [status |-> 200, category |-> NULL, request |-> r]
          /\ h' = [h EXCEPT ![p] = [r EXCEPT !.pc = "wc_delete",
                                             !.detached = TRUE]]
    /\ UNCHANGED << categories, expenses, nextCatId, nextExpId >>

\* The delete of the writeCategories that populateCategories left running.
PopulateWrite(p, deleteError, exits) ==
    /\ h[p].pc = "wc_delete"
    /\ WriteDelete(p, h[p], deleteError, exits)
    /\ UNCHANGED << expenses, nextCatId, nextExpId, started >>

\* The bodies of saveCategories requests.
FeedCategory == [name |-> "Feed", subCategories |-> << "Hay" >>]
VetCategory == [name |-> "Vet", subCategories |-> NULL]
Submissions == {<< >>, << FeedCategory >>, << FeedCategory, VetCategory >>}

\* What readExpenses returns to populateCategories.
Reads ==
    {{}, {[category |-> "Feed", subCategory |-> "Hay"]},
     {[category |-> "Feed", subCategory |-> "Hay"],
      [category |-> "Vet", subCategory |-> NULL]}}

\* A step of the category management handlers and of addExpense and
\* deleteExpense.
CategoryStep(p, exitOutcomes) ==
    /\ \/ \E isArray \in BOOLEAN, submitted \in Submissions,
             deleteError \in BOOLEAN :
               SaveCategories(p, isArray, submitted, deleteError)
       \/ \E read \in Reads : PopulateCategories(p, read)
       \/ \E deleteError \in BOOLEAN, exits \in exitOutcomes :
             PopulateWrite(p, deleteError, exits)
       \/ \E insertError \in BOOLEAN, exits \in exitOutcomes :
             WriteInsert(p, insertError, exits)
       \/ \E storeError \in BOOLEAN :
             AddExpense(p, FullExpense, storeError, << "ok", "ok" >>)
       \/ \E createError \in BOOLEAN :
             InsertCreate(p, createError, << "ok", "ok" >>)
       \/ \E insertError \in BOOLEAN :
             InsertRow(p, insertError, << "ok", "ok" >>)
    /\ logs' = << >>

\* The handlers, one request at a time; a write left running by
\* populateCategories ends before the next request.
CategoryNext ==
    /\ \/ \E p \in Procs :
             /\ \A q \in Procs \ {p} : h[q].pc = "idle"
             /\ CategoryStep(p, BOOLEAN)
             /\ UNCHANGED << animalVars, crudVars >>
       \/ \E id \in 1..nextExpId, storeError \in BOOLEAN :
             DeleteExpense(id, storeError)
    /\ UNCHANGED << loggerVars, readerVars >>

SpecCategories == Init /\ [][CategoryNext]_vars

(***************************************************************************)
(* The serving specification: the expense and category handlers run        *)
(* concurrently, and a handler whose store call has settled goes on.       *)
(***************************************************************************)

\* A step of handler p.
ServeStep(p) ==
    /\ \/ CategoryStep(p, BOOLEAN)
       \/ /\ \/ \E id \in 1..nextExpId, storeError \in BOOLEAN,
                   error \in UpdateErrors :
                     UpdateExpense(p, id, FullExpense, storeError, error)
             \/ \E createError \in BOOLEAN : UpdateCreate(p, createError)
             \/ \E error \in UpdateErrors : UpdateWrite(p, error)
          /\ logs' = << >>
    /\ UNCHANGED otherVars

ServeNext ==
    \/ \E p \in Procs : ServeStep(p)
    \/ /\ \E id \in CrudIds, body \in TaskUpdates, storeError \in BOOLEAN :
             UpdateTask(id, body, storeError)
       /\ UNCHANGED << loggerVars, readerVars >>

\* Every store call settles, with a result or an error, and the event loop
\* then runs the continuation of the handler that awaits it.
ServeFairness ==
    \A p \in Procs : WF_vars(h[p].pc # "idle" /\ ServeStep(p))

SpecServe == Init /\ [][ServeNext]_vars /\ ServeFairness

(***************************************************************************)
(* Tasks: addTask and updateTask.                                          *)
(***************************************************************************)

\* The id the store gives an inserted task: past every id of the table.
NewTaskId == IF tasks = {} THEN 1
             ELSE 1 + CHOOSE m \in {t.id : t \in tasks} :
                          \A t \in tasks : t.id <= m

\* POST /api/tasks: valid says that title, dueDate and assignedTo are
\* present.  taskData carries status (pending when the body has none) and no
\* completedAt, so the inserted row has none.
AddTask(valid, body, storeError) ==
    LET row == [id          |-> NewTaskId,
                status      |-> IF body.status = NULL THEN "pending"
                                ELSE body.status,
                completedAt |-> NoDate]
    IN  /\ Arrives
        /\ IF ~valid
           THEN /\ res' = [status |-> 400, category |-> NULL,
                           request |-> [IdleHandler EXCEPT !.kind = "addTask"]]
                /\ logs' = << >>
                /\ UNCHANGED << h, tasks >>
           ELSE IF storeError
           THEN /\ Answer("addTask", row.id, {}, "other", 500)
                /\ UNCHANGED tasks
           ELSE /\ tasks' = tasks \cup {row}
                /\ Answer("addTask", row.id, {row}, "none", 201)
        /\ UNCHANGED << categories, expenses, nextCatId, nextExpId,
                        breeding_records, childVars, animalVars >>

\* Tasks are added, updated and deleted, one request at a time, from the
\* table that holds one pending task.
TasksNext ==
    /\ \/ \E valid \in BOOLEAN, body \in TaskUpdates, storeError \in BOOLEAN :
             AddTask(valid, body, storeError)
       \/ \E id \in CrudIds, body \in TaskUpdates, storeError \in BOOLEAN :
             UpdateTask(id, body, storeError)
       \/ \E id \in CrudIds, storeError \in BOOLEAN : DeleteTask(id, storeError)
       \/ \E isArray \in BOOLEAN, numericIds \in IdLists,
             storeError \in BOOLEAN :
               BulkDeleteTasks(isArray, numericIds, storeError)
    /\ UNCHANGED << loggerVars, readerVars >>

SpecTasks == CrudInit /\ [][TasksNext]_vars

(***************************************************************************)
(* The claims.                                                             *)
(***************************************************************************)

\* The handlers with a request in flight, and the request the last response
\* answered.
InFlight == {h[p] : p \in {q \in Procs : h[q].pc # "idle"}}
Answered == res.request

\* A body that lacks a required field: description or category missing or
\* empty, amount missing or zero.
LacksRequired(e) ==
    \/ e.description \in {NULL, ""}
    \/ e.amount \in {None, Some(0)}
    \/ e.category \in {NULL, ""}

\* The name of the categories row(s) with id k.
NamesOf(k) == {c.name : c \in {x \in categories : x.id = k}}

\* C1: in every reachable state, under any interleaving of concurrent
\* addExpense, importExpenses and updateExpense requests, the categories
\* table holds at most one row per distinct name.
C1_OneRowPerName ==
    \A c1 \in categories, c2 \in categories :
        (c1.name # NULL /\ c1.name = c2.name) => c1.id = c2.id

\* C2: with one request at a time, a resolution of a category name yields
\* the categoryId that the expenses rows of that name already carry, and
\* the name has exactly one categories row.
C2_SequentialResolutionIdempotent ==
    \A r \in InFlight :
        (r.pc \in {"ins_insert", "upd_update"} /\ r.categoryId # 0
            /\ r.expense.category # NULL) =>
          /\ Cardinality(MatchingCategories(r.expense.category)) = 1
          /\ \A e \in expenses :
                r.expense.category \in NamesOf(e.categoryId)
                    => e.categoryId = r.categoryId

\* C3: no expenses row has a null, undefined or 0 categoryId (0 stands for
\* the three); a request whose category create step failed has written no
\* expenses row for that expense and ends as a server error: 500 for
\* addExpense and updateExpense, a counted error and no success for the
\* record of an import.
C3_NoRowAfterFailedResolution ==
    /\ \A e \in expenses : e.categoryId >= 1
    /\ \A r \in InFlight :
          /\ r.kind \in {"addExpense", "updateExpense"} => r.createFailed = 0
          /\ r.kind = "importExpenses" =>
                /\ r.errors >= r.createFailed
                /\ r.added + r.createFailed <= r.attempted
    /\ Answered.createFailed > 0 =>
          /\ Answered.kind \in {"addExpense", "updateExpense"} =>
                res.status = 500 /\ Answered.added = 0 /\ ~Answered.wrote
          /\ Answered.kind = "importExpenses" =>
                /\ Answered.errors >= Answered.createFailed
                /\ Answered.added + Answered.createFailed <= Answered.attempted

\* C3 witness: an addExpense ended 500 after its category create step
\* failed, with an earlier expense stored.
C3_Witness ==
    /\ res.status = 500
    /\ Answered.kind = "addExpense"
    /\ Answered.createFailed = 1
    /\ expenses # {}

\* C4: an addExpense whose body lacks a required field is answered 400
\* before any store call: it never has a store call in flight, has issued
\* none and has inserted no row when the response is sent.
C4_ValidationBeforeStore ==
    /\ \A r \in InFlight :
          r.kind = "addExpense" => ~LacksRequired(r.expense)
    /\ (Answered.kind = "addExpense" /\ LacksRequired(Answered.expense)) =>
          res.status = 400 /\ ~Answered.touched /\ Answered.added = 0

\* C4 witness: an addExpense with no amount was answered 400.
C4_Witness ==
    /\ res.status = 400
    /\ Answered.kind = "addExpense"
    /\ Answered.expense.amount = None
    /\ Answered.expense.description # NULL

\* C5: in importExpenses every record that lacks description, amount or
\* category is counted as a failure: the steps insertExpense takes for it
\* create no categories row and no expenses row, and it ends with one more
\* entry in errors and no more successes.
C5_LackingRecordFails ==
    [][\A p \in Procs :
          (/\ h[p].kind = "importExpenses"
           /\ h[p].pc \in {"ins_create", "ins_insert"}
           /\ LacksRequired(h[p].expense)
           /\ h'[p] # h[p])
          => /\ categories' = categories
             /\ expenses' = expenses
             /\ h'[p].pc = "imp_loop" =>
                   /\ h'[p].errors = h[p].errors + 1
                   /\ h'[p].successCount = h[p].successCount]_vars

\* C6: importExpenses hands every record of the batch to insertExpense
\* whatever records fail: while it runs, every record attempted so far is
\* counted once, as a success or as an error; when it responds, all
\* totalCount records were attempted, successCount + errors = totalCount,
\* and successCount is the number of expenses rows the request added.
C6_ImportAttemptsEveryRecord ==
    /\ \A r \in InFlight :
          r.kind = "importExpenses" =>
             /\ r.attempted <= r.totalCount
             /\ r.successCount + r.errors =
                   r.attempted - (IF r.pc = "imp_loop" THEN 0 ELSE 1)
             /\ r.added = r.successCount
    /\ (Answered.kind = "importExpenses" /\ res.status # 400) =>
          /\ res.status = 200
          /\ Answered.attempted = Answered.totalCount
          /\ Answered.successCount + Answered.errors = Answered.totalCount
          /\ Answered.added = Answered.successCount

\* C6 witness: the first record of a batch failed and the second is being
\* attempted.
C6_Witness ==
    \E r \in InFlight :
        /\ r.kind = "importExpenses"
        /\ r.errors = 1
        /\ r.attempted = 2
        /\ r.pc = "ins_insert"

\* C7: category resolution inserts a categories row only if the name had no
\* row at the time of the lookup, whatever the lookup call returned.
C7_CreateOnlyIfAbsent ==
    \A r \in InFlight : r.created => r.seen = 0

\* C8: an auto-created category has subCategories [subCategory of the
\* expense], or ["General"] when the expense has none, and no null element.
C8_AutoCreatedSubCategories ==
    \A r \in InFlight :
        r.created =>
           \A c \in categories :
               c.id = r.categoryId =>
                  /\ c.subCategories =
                        IF r.expense.subCategory \in {NULL, ""}
                        THEN << "General" >>
                        ELSE << r.expense.subCategory >>
                  /\ \A i \in DOMAIN c.subCategories : c.subCategories[i] # NULL

\* The weight records of animal a among ws.
RecordsOf(a, ws) == {w \in ws : w.animalId = a.id}

\* C9: over the animals and weight records the handler read, averageWeight
\* is the mean of the selected weights that are > 0, the selected weight of
\* an animal being the weight of a record of its greatest date if it has a
\* record, else its currentWeight (0 if absent); it is 0 when no animal is
\* included.
C9_AverageWeight ==
    summary.status = 200 =>
      LET as == summary.fetched.animals
          ws == summary.fetched.weightRecords
          first == summary.fetched.first
          selected == [a \in as |->
                         IF RecordsOf(a, ws) # {}
                         THEN first[a].weight
                         ELSE IF a.currentWeight = None THEN 0
                              ELSE a.currentWeight[1]]
          counted == {a \in as : selected[a] > 0}
      IN  /\ \A a \in as :
                RecordsOf(a, ws) # {} =>
                   /\ first[a] \in RecordsOf(a, ws)
                   /\ \A v \in RecordsOf(a, ws) : v.date <= first[a].date
          /\ summary.averageWeight.den >= 1
          /\ IF counted = {}
             THEN summary.averageWeight.num = 0
             ELSE summary.averageWeight.num * Cardinality(counted) =
                     Sum(counted, selected) * summary.averageWeight.den

\* C9 witness: of two animals without weight records, the one with
\* currentWeight 45 makes the average 45 and the one with no currentWeight
\* is left out.
C9_Witness ==
    /\ summary.status = 200
    /\ \E a \in summary.fetched.animals, b \in summary.fetched.animals :
          a.currentWeight = Some(45) /\ b.currentWeight = None
    /\ summary.fetched.weightRecords = {}
    /\ summary.averageWeight = [num |-> 45, den |-> 1]

\* C10: over the animals the handler read, totalInvestment is the sum of
\* purchasePrice (absent: 0) over all animals, totalRevenue the sum of
\* salePrice over exactly the sold animals, profitLoss their difference.
C10_FinancialRollups ==
    summary.status = 200 =>
      LET as == summary.fetched.animals
          price == [a \in as |->
                      IF a.purchasePrice = None THEN 0 ELSE a.purchasePrice[1]]
          sale  == [a \in as |->
                      IF a.status = "sold" /\ a.salePrice # None
                      THEN a.salePrice[1] ELSE 0]
      IN  /\ summary.totalInvestment = Sum(as, price)
          /\ summary.totalRevenue = Sum(as, sale)
          /\ summary.profitLoss =
                summary.totalRevenue - summary.totalInvestment

\* C10 witness: an active animal bought for 100 and a sold animal bought
\* for 200 and sold for 350 give 300, 350 and 50.
C10_Witness ==
    /\ summary.status = 200
    /\ \E a \in summary.fetched.animals, b \in summary.fetched.animals :
          /\ a.status = "active" /\ a.purchasePrice = Some(100)
          /\ b.status = "sold" /\ b.purchasePrice = Some(200)
          /\ b.salePrice = Some(350)
    /\ summary.totalInvestment = 300
    /\ summary.totalRevenue = 350
    /\ summary.profitLoss = 50

\* The expenses rows a step adds.
NewRows == expenses' \ expenses

\* C11: when an ingestion (addExpense or a record of importExpenses) stores
\* an expenses row, an input date "1/5/2024" is stored as "2024-01-05" and
\* an input date "2024-01-05" is stored unchanged.
C11_DateNormalizedOnIngest ==
    [][\A p \in Procs :
          (h[p].pc = "ins_insert" /\ h'[p] # h[p]) =>
             \A x \in NewRows :
                /\ h[p].expense.date = MdyDate => x.date = IsoDate
                /\ h[p].expense.date = IsoDate => x.date = IsoDate]_vars

\* C12: when an ingestion stores an expenses row for an input date that is
\* neither YYYY-MM-DD nor M/D/YYYY ("not-a-date"), the row carries the
\* current date and the request has emitted a warn-level log entry by then.
C12_UnparsableDateReplaced ==
    [][\A p \in Procs :
          (h[p].pc = "ins_insert" /\ h'[p] # h[p]
              /\ h[p].expense.date = OtherDate) =>
             \A x \in NewRows :
                /\ x.date = Today
                /\ \E i \in 1..Len(logs) : logs[i].level = "warn"]_vars

\* C13: for every row the reader returns and every field, when the row has
\* the field under both its capitalized label and its camelCase key with
\* different non-empty values the returned value is the camelCase key's,
\* and when it has only one of the two the returned value is that one (a
\* date of the form YYYY-MM-DD, an amount as its number).
C13_CamelCasePreferred ==
    (listing.status = 200 /\ ~listing.readError) =>
       \A i \in 1..Len(allexpenses) :
          LET item == allexpenses[i]
              out  == listing.expenses[i]
              outText == [k \in {f.key : f \in TextFields} |->
                            CASE k = "type" -> out.type
                              [] k = "description" -> out.description
                              [] k = "paidBy" -> out.paidBy
                              [] k = "category" -> out.category
                              [] k = "subCategory" -> out.subCategory
                              [] k = "source" -> out.source
                              [] k = "notes" -> out.notes]
          IN  /\ \A f \in TextFields :
                    /\ item[f.key] \notin {NULL, ""} =>
                          outText[f.key] = item[f.key]
                    /\ (item[f.key] \in {NULL, ""}
                           /\ item[f.label] \notin {NULL, ""}) =>
                          outText[f.key] = item[f.label]
              /\ item["date"] = IsoDate => out.date = IsoDate
              /\ (item["date"] = NoDate /\ item["Date"] = IsoDate) =>
                    out.date = IsoDate
              /\ item["amount"] \notin {None, Some(0)} =>
                    out.amount = item["amount"][1]
              /\ (item["amount"] \in {None, Some(0)}
                     /\ item["Amount"] \notin {None, Some(0)}) =>
                    out.amount = item["Amount"][1]

\* A step in which a handler sends its response: a handler with a request
\* in flight ends, or a request is answered in the step it arrives in.
Responds ==
    \/ \E p \in Procs : h[p].pc # "idle" /\ h'[p].pc = "idle"
    \/ h' = h /\ started' # started

\* C14: when addExpense or updateExpense answers with a success status, the
\* category of the returned expense is a non-empty name, and it is the name
\* of the categories row that the categoryId of the stored row (the row
\* added, or the row updated) refers to.
C14_ResponseCarriesCategoryName ==
    [][   (/\ Responds
           /\ res'.request.kind \in {"addExpense", "updateExpense"}
           /\ res'.status \in {200, 201}) =>
             /\ res'.category \notin {NULL, ""}
             /\ \A x \in expenses' :
                   (x \in NewRows \/ (res'.request.kind = "updateExpense"
                                          /\ x.id = res'.request.id)) =>
                      \E c \in categories' :
                         c.id = x.categoryId /\ c.name = res'.category]_vars

\* The step has emitted an error-level log entry.
LogsError == \E i \in 1..Len(logs') : logs'[i].level = "error"

\* C15: a step that surfaces a store failure to the caller, as a 500
\* response or as one more entry in the errors of an import, has emitted an
\* error-level log entry before it.
C15_FailureLoggedBeforeSurfaced ==
    [][/\ (Responds /\ res'.status = 500) => LogsError
       /\ \A p \in Procs :
             (h[p].kind = "importExpenses" /\ h'[p].kind = "importExpenses"
                 /\ h'[p].errors > h[p].errors) => LogsError]_vars

\* C17: whatever a step of addExpense, importExpenses (or updateExpense)
\* does under the outcomes its error_logs writes had, it does the same under
\* every other outcome of these writes: the same response, the same
\* categories and expenses rows, the same continuation of the request.
C17_LoggingDoesNotInfluence ==
    [][\A o2 \in [1..2 -> LogOutcomes] :
          \E p \in Procs :
             /\ \A q \in Procs \ {p} : h[q].pc = "idle"
             /\ HandlerCore(p, {FullExpense}, BOOLEAN, o2)]_vars

\* C17 witness: an insertExpense goes on to its expenses insert after a log
\* entry of its last step went to the console because the error_logs insert
\* failed.
C17_Witness ==
    \E r \in InFlight :
        /\ r.pc = "ins_insert"
        /\ r.created
        /\ \E i \in 1..Len(logs) : logs[i].sinks = {"console"}

\* C16: no call of ErrorLogger.log throws to its caller, and each call
\* emits its entry exactly once: every call so far has left one entry in
\* error_logs or on the console, and the entry of the last call went to
\* error_logs alone if its insert succeeded and to the console alone if the
\* insert returned an error, threw, or was never reached.
C16_LoggerNeverThrowsOneEmission ==
    /\ Len(error_logs) + Len(console) = logCalls
    /\ \A i \in 1..Len(logs) :
          logs[i].what = "log" =>
             /\ ~logs[i].threw
             /\ IF logs[i].details # "circular" /\ logs[i].outcome = "ok"
                THEN logs[i].sinks = {"error_logs"}
                ELSE logs[i].sinks = {"console"}

\* C16 witness: after a call whose insert succeeded, a call whose insert
\* threw has left its entry on the console.
C16_Witness ==
    /\ Len(error_logs) >= 1
    /\ Len(console) >= 1
    /\ logs # << >>
    /\ logs[1].what = "log"
    /\ logs[1].outcome = "throws"
    /\ logs[1].sinks = {"console"}

\* C18: a read endpoint whose underlying read failed answers with status
\* 500; here getAnimalSummary, whose reads of animals and weight_records
\* can each fail.
C18_FailedReadAnswers500 ==
    (summary.status # 0 /\ summary.readError) => summary.status = 500

\* The table an update or delete request of the kind addresses.
Addressed(kind) ==
    CASE kind \in {"updateExpense", "deleteExpense"} -> expenses
      [] kind \in {"updateTask", "deleteTask"} -> tasks
      [] kind \in {"updateAnimal", "deleteAnimal"} -> animals
      [] kind = "updateBreedingRecord" -> breeding_records
      [] OTHER -> {}

AddressedNext(kind) ==
    CASE kind \in {"updateExpense", "deleteExpense"} -> expenses'
      [] kind \in {"updateTask", "deleteTask"} -> tasks'
      [] kind \in {"updateAnimal", "deleteAnimal"} -> animals'
      [] kind = "updateBreedingRecord" -> breeding_records'
      [] OTHER -> {}

\* The step answers a request of one of the kinds, addressed to an id no
\* row of the addressed table has, no store call of the request having
\* failed otherwise than by matching no row.
AnswersMiss(kinds) ==
    /\ Responds
    /\ res'.request.kind \in kinds
    /\ ~res'.request.storeFailed
    /\ \A x \in Addressed(res'.request.kind) : x.id # res'.request.id

\* C19: a step that answers an updateExpense, updateTask, updateAnimal or
\* updateBreedingRecord request addressed to an id that has no row answers
\* with status 404 and leaves the addressed table as it was.
C19_UpdateOfMissingIdIs404 ==
    [][AnswersMiss({"updateExpense", "updateTask", "updateAnimal",
                    "updateBreedingRecord"})
         => /\ res'.status = 404
            /\ AddressedNext(res'.request.kind) = Addressed(res'.request.kind)]_vars

\* C19 witness: an update of a task that had been deleted was answered 404.
C19_Witness ==
    /\ res.status = 404
    /\ res.request.kind = "updateTask"
    /\ res.request.id = 1
    /\ ~res.request.existed
    /\ ~res.request.storeFailed
    /\ tasks = {}

\* C20: a step that answers a deleteExpense, deleteTask or deleteAnimal
\* request addressed to an id that has no row answers with status 404, and
\* a step that answers such a request with success has removed a row that
\* had the id.
C20_DeleteOfMissingIdIs404 ==
    [][/\ AnswersMiss({"deleteExpense", "deleteTask", "deleteAnimal"})
          => res'.status = 404
       /\ (/\ Responds
           /\ res'.request.kind \in {"deleteExpense", "deleteTask", "deleteAnimal"}
           /\ res'.status = 200)
          => /\ \E x \in Addressed(res'.request.kind) : x.id = res'.request.id
             /\ \A x \in AddressedNext(res'.request.kind) :
                   x.id # res'.request.id]_vars

\* C21: every row of the expenses table has an amount that is not negative.
C21_AmountNonNegative ==
    \A x \in expenses : x.amount # None => x.amount[1] >= 0

\* The weight records among ws whose animal is none of as.
Orphans(as, ws) == {w \in ws : \A a \in as : a.id # w.animalId}

\* A summary computed from reads that succeeded counts no orphan: each
\* animal's weight is that of one of its own records, or its currentWeight
\* if it has none, and averageWeight is the mean of those that are > 0.
NoOrphanCounted(s) ==
    (s.status = 200 /\ ~s.readError) =>
      LET as == s.fetched.animals
          ws == s.fetched.weightRecords
          first == s.fetched.first
          own == ws \ Orphans(as, ws)
          selected == [a \in as |->
                         IF RecordsOf(a, own) # {} THEN first[a].weight
                         ELSE IF a.currentWeight = None THEN 0
                              ELSE a.currentWeight[1]]
          counted == {a \in as : selected[a] > 0}
      IN  /\ \A a \in as : first[a] \notin Orphans(as, ws)
          /\ s.totalAnimals = Cardinality(as)
          /\ s.averageWeight =
                IF counted = {} THEN [num |-> 0, den |-> 1]
                ELSE [num |-> Sum(counted, selected),
                      den |-> Cardinality(counted)]

\* C22: a step that answers a deleteAnimal request removes at most the
\* animals row of the addressed id and leaves weight_records,
\* breeding_records, vaccination_records and health_records as they were;
\* and every summary then computed counts no orphan weight record.
C22_DeleteAnimalLeavesChildren ==
    [][/\ (Responds /\ res'.request.kind = "deleteAnimal")
          => /\ animals' \subseteq animals
             /\ \A a \in animals \ animals' : a.id = res'.request.id
             /\ UNCHANGED << weight_records, breeding_records,
                             vaccination_records, health_records >>
       /\ NoOrphanCounted(summary')]_vars

\* C22 witness: after the animal of id 1 was deleted, its weight record is
\* still in the table, and a summary was computed over the remaining
\* animal and the orphan.
C22_Witness ==
    /\ res.status = 200
    /\ res.request.kind = "deleteAnimal"
    /\ \A a \in animals : a.id # 1
    /\ \E w \in weight_records : w.animalId = 1
    /\ \E b \in breeding_records : b.motherId = Some(1)
    /\ summary.status = 200
    /\ summary.fetched.animals = animals
    /\ animals # {}
    /\ Orphans(summary.fetched.animals, summary.fetched.weightRecords) # {}

\* The categories rows as [name, subCategories], and the submitted
\* categories as the rows they make.
Contents(rows) ==
    {[name |-> c.name, subCategories |-> c.subCategories] : c \in rows}
SubmittedContents(submitted) ==
    {[name |-> submitted[i].name,
      subCategories |-> IF submitted[i].subCategories = NULL THEN << >>
                        ELSE submitted[i].subCategories]
        : i \in 1..Len(submitted)}

\* C27: a step that answers a saveCategories request with 500 leaves the
\* categories table holding the rows it held when the request arrived; a
\* step that answers it with success leaves the table holding exactly the
\* submitted categories, and no store call of the request has failed.
C27_SaveCategoriesAllOrNothing ==
    [][(Responds /\ res'.request.kind = "saveCategories")
         => /\ res'.status = 500 => categories' = res'.request.before
            /\ res'.status = 200 =>
                  /\ Contents(categories') =
                        SubmittedContents(res'.request.submitted)
                  /\ Cardinality(categories') = Len(res'.request.submitted)
                  /\ ~res'.request.storeFailed]_vars

\* The step sends the success response of populateCategories.
PopulateAnswers ==
    \E p \in Procs :
        /\ h[p].pc = "idle"
        /\ h'[p].kind = "populateCategories"
        /\ res'.request.kind = "populateCategories"
        /\ res'.status = 200

\* C28: when populateCategories sends its success response with count n,
\* the write has completed: no writeCategories of the request is still
\* running, and the categories table holds exactly the n reported
\* categories.
C28_PopulateAnswersAfterWrite ==
    [][PopulateAnswers
         => /\ \A p \in Procs : h'[p].kind # "populateCategories"
            /\ Contents(categories') =
                  SubmittedContents(res'.request.submitted)
            /\ Cardinality(categories') = Len(res'.request.submitted)]_vars

\* C25: whenever no request is in flight, the categoryId of every expenses
\* row is the id of a row of the categories table.
C25_ReferentialIntegrity ==
    (\A p \in Procs : h[p].pc = "idle") =>
       \A x \in expenses : \E c \in categories : c.id = x.categoryId

\* C23: every request in flight is eventually answered, and every response
\* has status 200 or 201, or 400, 404 or 500.
C23_EveryRequestAnswered ==
    /\ [](res.status \in {0, 200, 201, 400, 404, 500})
    /\ \A p \in Procs :
          (h[p].pc # "idle" /\ ~h[p].detached)
             ~> (h[p].pc = "idle" \/ h[p].detached)

\* The step answers an updateExpense request with the status.
UpdateAnswered(status) ==
    /\ Responds
    /\ res'.request.kind = "updateExpense"
    /\ res'.status = status

\* C24: a step that answers an updateExpense request with success leaves
\* the addressed row with the categoryId of the categories row named as
\* the body names it: the row that had the name when the request arrived,
\* or a row created for the name if none had it; if the body names no
\* category, the row keeps its categoryId and the categories table is as
\* it was when the request arrived.
C24_UpdateResolvesCategory ==
    [][UpdateAnswered(200) =>
         LET r == res'.request
             named == {c \in r.before : c.name = r.expense.category}
         IN  \A y \in {x \in expenses' : x.id = r.id} :
                IF FalsyStr(r.expense.category)
                THEN /\ categories' = r.before
                     /\ \E x \in expenses : x.id = r.id /\ x.categoryId = y.categoryId
                ELSE /\ NamesOf(y.categoryId)' = {r.expense.category}
                     /\ IF named # {}
                        THEN /\ y.categoryId \in {c.id : c \in named}
                             /\ categories' = r.before
                        ELSE /\ Cardinality(categories' \ r.before) = 1
                             /\ r.before \subseteq categories']_vars

\* C26: a step that answers an updateExpense request with 404 or 500
\* leaves the expenses table as it was and the categories table as it was
\* when the request arrived.
C26_FailedUpdateChangesNothing ==
    [][(UpdateAnswered(404) \/ UpdateAnswered(500))
         => /\ expenses' = expenses
            /\ categories' = res'.request.before]_vars

\* C29: a step that answers a bulkDeleteExpenses or bulkDeleteTasks request
\* with success reports as deletedCount the number of rows the step
\* removed from the table.
C29_DeletedCountIsRowsRemoved ==
    [][(/\ Responds
        /\ res'.request.kind \in {"bulkDeleteExpenses", "bulkDeleteTasks"}
        /\ res'.status = 200)
         => res'.request.deletedCount =
               IF res'.request.kind = "bulkDeleteExpenses"
               THEN Cardinality(expenses \ expenses')
               ELSE Cardinality(tasks \ tasks')]_vars

\* C30: every row of the tasks table has a completedAt exactly when its
\* status is completed.
C30_CompletedAtIffCompleted ==
    \A t \in tasks : (t.completedAt # NoDate) <=> (t.status = "completed")

====
